---- MODULE Spec2Model ----
(***************************************************************************)
(* Retry engine (src/utils/retry.ts, withRetry) and the OpenAI provider    *)
(* adapter's error classification (src/providers/openai.ts, doQuery and    *)
(* isRetriableError).                                                      *)
(*                                                                         *)
(* One withRetry call is a small state machine.  withRetry has two paths:  *)
(*   - the custom loop of retry.ts:18-59, taken when options.retryIf is    *)
(*     set;                                                                *)
(*   - the call of the p-retry library of retry.ts:62-71 otherwise.  The   *)
(*     library is not part of the repository; it is modelled as p-retry 4  *)
(*     on top of retry 0.12 behaves (see the comments of PRetrySettle).    *)
(* Durations are kept in units of 1/Scale ms so that the jitter factors    *)
(* stay integers.                                                          *)
(***************************************************************************)
EXTENDS Integers, Sequences, FiniteSets, TLC

VARIABLES
    opts,       \* the RetryOptions argument of withRetry
    opKind,     \* what fn is: "raw" (any failing callable) or "doQuery"
    pc,         \* "start" | "await" (fn pending) | "sleep" (backoff) | "done" | "failed"
    path,       \* "none" | "custom" (retry.ts:18-59) | "pretry" (retry.ts:62-71)
    attempt,    \* loop counter of retry.ts:24 / p-retry's attemptNumber - 1
    calls,      \* number of invocations of fn so far
    upstream,   \* outcome of the last upstream call: None, Ok or the raw error
    thrown,     \* what the last settled fn produced: None, Ok or the error thrown
    lastError,  \* retry.ts:23 (custom path)
    errors,     \* the list of errors of the retry operation (p-retry path)
    nDelays,    \* number of backoff delays started
    delay,      \* the last backoff delay started, in 1/Scale ms
    nCb,        \* number of invocations of the failure callback
    lastCb,     \* the last failure-callback invocation
    outcome,    \* how withRetry settled: [kind |-> "pending" | "return" | "throw", ...]
    caught,     \* the error a catch block of doQuery is handed (None: none yet)
    retriable,  \* "unset", or what isRetriableError produced for caught
    rethrown,   \* None, or what that catch block of doQuery threw
    via,        \* how the failed call was made: "direct" or "proxy" (useProxy)
    upStatus,   \* the HTTP status of the response behind the failure (Absent: none)
    relay,      \* proxyServer.ts: the requests dispatched to handleOpenAIProxy
    logs,       \* proxyServer.ts:38-45: the requests seen by the logging middleware
    stream,     \* openai.ts:205-261: one streamViaProxy generator and its consumer
    life,       \* proxyServer.ts:157-186: the listeners and the start/stop calls
    par         \* concurrent withRetry calls of doQuery on one adapter instance

retryVars == <<opts, opKind, pc, path, attempt, calls, upstream, thrown, lastError,
               errors, nDelays, delay, nCb, lastCb, outcome>>

classifyVars == <<caught, retriable, rethrown, via, upStatus>>

\* The variables of the proxy relay, of the adapter's proxied stream and of
\* the concurrent calls.
otherVars == <<relay, logs, stream, life, par>>

vars == <<retryVars, classifyVars, otherVars>>

-----------------------------------------------------------------------------
(* Bounds of the model *)

\* Largest explicit retry budget drawn for options.retries.
MaxRetries == 2

\* Math.random() is drawn as r / RandomResolution with r in JitterSamples.
RandomResolution == 1000

\* The samples of Math.random(): the smallest value, a middle one, the largest.
JitterSamples == {0, 500, RandomResolution - 1}

-----------------------------------------------------------------------------
(* Program constants *)

\* An option that is not set (undefined in the source).
Absent == -1

DefaultRetries == 3
DefaultMinTimeout == 1000
DefaultMaxTimeout == 10000

\* jitter = Math.random() * 0.1, i.e. Math.random() / JitterDivisor.
JitterDivisor == 10

\* One millisecond, in the unit durations are kept in.
Scale == RandomResolution * JitterDivisor

-----------------------------------------------------------------------------
(* Errors *)

\* A thrown value.  cls is its runtime class: "Error" (an Error that is not a
\* TypeError), "TypeError", "NonError" (a thrown value that is no Error
\* instance, such as a string) or "Nullish" (undefined or null was thrown).
\* id is the invocation of fn that created the object (0: created by the
\* retry machinery).  orig is <<>> or <<e>>, the originalError property.
\* attemptNumber and retriesLeft are Absent unless something attached them.
MkError(cls, name, status, code, msg, id, orig) ==
    [cls |-> cls, name |-> name, status |-> status, code |-> code, msg |-> msg,
     id |-> id, orig |-> orig, attemptNumber |-> Absent, retriesLeft |-> Absent]

\* An error of the upstream API carrying an HTTP status.
APIError(status, id) == MkError("Error", "Error", status, "none", "m1", id, <<>>)

\* A network failure carrying an errno code.
NetError(code, id) == MkError("Error", "Error", Absent, code, "m2", id, <<>>)

\* An Error with neither status nor code.
PlainError(id) == MkError("Error", "Error", Absent, "none", "m3", id, <<>>)

\* A TypeError that is not one of the fetch network errors p-retry recognises.
ATypeError(id) == MkError("TypeError", "TypeError", Absent, "none", "m4", id, <<>>)

\* A TypeError whose message is on p-retry's list of the network errors of
\* fetch ('Failed to fetch', 'Network request failed', ...).
FetchTypeError(id) == MkError("TypeError", "TypeError", Absent, "none", "m8", id, <<>>)

\* A thrown string.
NonError(id) == MkError("NonError", "none", Absent, "none", "none", id, <<>>)

\* throw undefined / a promise rejected with no reason.
Nullish(id) == MkError("Nullish", "none", Absent, "none", "none", id, <<>>)

\* A successful settlement, and the absence of any settlement so far.
Ok == MkError("ok", "none", Absent, "none", "none", 0, <<>>)
None == MkError("none", "none", Absent, "none", "none", 0, <<>>)

IsError(v) == v.cls \notin {"ok", "none"}

\* HTTP statuses the upstream answers with in the runs of withRetry.
RunStatuses == {404, 503}

\* What an invocation of the failing callable can throw.
RawErrors(id) ==
    {APIError(s, id) : s \in RunStatuses}
        \cup {NetError("ECONNRESET", id), ATypeError(id), FetchTypeError(id),
              NonError(id)}

\* What the upstream call inside doQuery can fail with.
UpstreamErrors(id) == RawErrors(id) \cup {Nullish(id)}

-----------------------------------------------------------------------------
(* Provider adapter: error classification *)

\* openai.ts:130-156.  "true" / "false", or "TypeError" when the evaluation of
\* error.code (line 147) throws because error is undefined or null: line 132
\* reads error?.status, line 147 reads error.code without the guard.
isRetriableError(error) ==
    IF error.cls = "Nullish" THEN "TypeError"
    ELSE IF error.status # Absent /\ error.status # 0 /\ error.status >= 500 THEN "true"
    ELSE IF error.status # Absent /\ error.status # 0 /\ error.status = 429 THEN "true"
    ELSE IF error.status # Absent /\ error.status # 0 /\ error.status = 408 THEN "true"
    ELSE IF error.status # Absent /\ error.status # 0
            /\ error.status >= 400 /\ error.status < 500 THEN "false"
    ELSE IF error.code \in {"ECONNRESET", "ENOTFOUND", "ECONNREFUSED", "ETIMEDOUT"}
         THEN "true"
    ELSE "true"

\* openai.ts:100-103: new Error(error.message) named NonRetriableError, with
\* the caught error as originalError.
nonRetriableError(error, id) ==
    MkError("Error", "NonRetriableError", Absent, "none", error.msg, id, <<error>>)

\* The catch block rethrowing whatever it caught, without the wrapping.
doQueryCatchNoWrap(error, id) == error

\* openai.ts:94-105, the catch block of doQuery: what doQuery throws when
\* its upstream call failed with error, during invocation id.
doQueryCatch(error, id) ==
    CASE isRetriableError(error) = "true" -> error
      [] isRetriableError(error) = "false" -> nonRetriableError(error, id)
      [] OTHER -> MkError("TypeError", "TypeError", Absent, "none", "m5", id, <<>>)

\* openai.ts:42-106: what fn settles with, given the outcome o of the upstream
\* call (Ok or an error); a raw callable settles with o itself.
fnSettles(kind, o, id) ==
    IF o.cls = "ok" THEN Ok
    ELSE IF kind = "doQuery" THEN doQueryCatch(o, id)
    ELSE o

\* The outcomes of the call made by invocation id of fn.
Outcomes(kind, id) ==
    {Ok} \cup (IF kind = "doQuery" THEN UpstreamErrors(id) ELSE RawErrors(id))

-----------------------------------------------------------------------------
(* Retry engine: options *)

\* x || d of JavaScript on an optional number: undefined and 0 are falsy.
OrDefault(x, d) == IF x = Absent \/ x = 0 THEN d ELSE x

\* { d, ...options }: a key that is set overrides the default, 0 included.
Spread(x, d) == IF x = Absent THEN d ELSE x

\* retry.ts:19-21, the budget and the timeouts of the custom loop.
maxRetries == OrDefault(opts.retries, DefaultRetries)
minTimeout == OrDefault(opts.minTimeout, DefaultMinTimeout)
maxTimeout == OrDefault(opts.maxTimeout, DefaultMaxTimeout)

\* retry.ts:62-71, the options handed to p-retry.
pRetries == Spread(opts.retries, DefaultRetries)
pMinTimeout == Spread(opts.minTimeout, DefaultMinTimeout)
pMaxTimeout == Spread(opts.maxTimeout, DefaultMaxTimeout)

\* retry.ts:51 (options.randomize !== false) and retry.ts:66 (randomize: true
\* unless options sets it).
randomize == opts.randomize # "false"

\* options.retryIf(error), for the predicates drawn: () => true, () => false
\* and error => error.name !== 'NonRetriableError'.
retryIf(error) ==
    CASE opts.retryIf = "always" -> TRUE
      [] opts.retryIf = "never" -> FALSE
      [] OTHER -> error.name # "NonRetriableError"

Pow2(k) == 2 ^ k

Min(a, b) == IF a <= b THEN a ELSE b

\* retry.ts:50-52: the backoff after the failure of attempt k, with
\* Math.random() = r / RandomResolution; in 1/Scale ms.
timeout(k, r) ==
    LET baseTimeout == Min(minTimeout * Pow2(k), maxTimeout)
    IN  IF randomize THEN baseTimeout * (Scale + r) ELSE baseTimeout * Scale

\* The timeout the retry library computes for retry k (retry 0.12,
\* createTimeout): round(random * minTimeout * 2^k) capped at maxTimeout,
\* with random = 1 + Math.random() when randomize is on and 1 otherwise;
\* Math.round rounds half up.  A minTimeout of 0 gives delays of 0 ms.
\* In 1/Scale ms.
createTimeout(k, r) ==
    LET factor == IF randomize THEN RandomResolution + r ELSE RandomResolution
        exact == factor * pMinTimeout * Pow2(k)
        rounded == (2 * exact + RandomResolution) \div (2 * RandomResolution)
    IN  Min(rounded, pMaxTimeout) * Scale

\* p-retry's decorateErrorWithCounts: attaches attemptNumber and retriesLeft
\* to the error object itself.
decorateErrorWithCounts(error, attemptNumber) ==
    [error EXCEPT !.attemptNumber = attemptNumber,
                  !.retriesLeft = pRetries - (attemptNumber - 1)]

\* RetryOperation.mainError of the retry library: the error whose message
\* occurs most often among the operation's errors, the latest one on a tie.
RECURSIVE mainScan(_, _, _, _)
mainScan(errs, i, best, bestCount) ==
    IF i > Len(errs) THEN best
    ELSE LET count == Cardinality({j \in 1..i : errs[j].msg = errs[i].msg})
         IN  IF count >= bestCount THEN mainScan(errs, i + 1, i, count)
             ELSE mainScan(errs, i + 1, best, bestCount)

mainError(errs) == errs[mainScan(errs, 1, 0, 0)]

-----------------------------------------------------------------------------
(* Retry engine: one withRetry call *)

\* The (minTimeout, maxTimeout) pairs drawn: unset, the scenario of the
\* specification, a zero minimum, a cap reached at the second retry, and a
\* minimum above the maximum.
TimeoutPairs == {<<Absent, Absent>>, <<10, 100>>, <<0, 100>>, <<10, 15>>, <<20, 10>>}

\* The RetryOptions drawn.
OptionsSet ==
    {[retries |-> n, minTimeout |-> t[1], maxTimeout |-> t[2], randomize |-> j,
      retryIf |-> p, onFailedAttempt |-> c] :
        n \in {Absent} \cup (0..MaxRetries), t \in TimeoutPairs,
        j \in {"unset", "false"},
        p \in {"none", "always", "never", "notNonRetriable"},
        c \in BOOLEAN}

Pending == [kind |-> "pending", value |-> None]
Return(v) == [kind |-> "return", value |-> v]
Throw(e) == [kind |-> "throw", value |-> e]

NoCb == [attemptNumber |-> 0, retriesLeft |-> 0, calls |-> 0, nDelays |-> 0, id |-> 0]

\* No request, no stream and no listener: the relay and the proxied stream
\* take no part in a run of withRetry or of the catch block of doQuery.
OtherIdle ==
    /\ relay = <<>>
    /\ logs = <<>>
    /\ stream = [pc |-> "idle"]
    /\ life = [pc |-> "idle"]
    /\ par = <<>>

\* The state when withRetry(fn, options) is called.
Init ==
    /\ opts \in OptionsSet
    /\ opKind \in {"raw", "doQuery"}
    /\ pc = "start"
    /\ path = "none"
    /\ attempt = 0
    /\ calls = 0
    /\ upstream = None
    /\ thrown = None
    /\ lastError = None
    /\ errors = <<>>
    /\ nDelays = 0
    /\ delay = 0
    /\ nCb = 0
    /\ lastCb = NoCb
    /\ outcome = Pending
    /\ caught = None
    /\ retriable = "unset"
    /\ rethrown = None
    /\ via = "direct"
    /\ upStatus = Absent
    /\ OtherIdle

\* retry.timeouts of the retry library, called as p-retry creates its
\* operation: it throws when minTimeout is greater than maxTimeout.
timeoutsRejected == pMinTimeout > pMaxTimeout

configError == MkError("Error", "Error", Absent, "none", "m6", 0, <<>>)

\* retry.ts:13-26 and 62: withRetry runs up to the first invocation of fn.
Begin ==
    /\ pc = "start"
    /\ path' = IF opts.retryIf # "none" THEN "custom" ELSE "pretry"
    /\ IF opts.retryIf = "none" /\ timeoutsRejected
       THEN /\ pc' = "failed"
            /\ outcome' = Throw(configError)
            /\ calls' = calls
       ELSE /\ pc' = "await"
            /\ outcome' = outcome
            /\ calls' = calls + 1
    /\ UNCHANGED <<opts, opKind, attempt, upstream, thrown, lastError, errors,
                   nDelays, delay, nCb, lastCb, classifyVars, otherVars>>

\* The catch block without the check of retry.ts:36-38.
customRetriesNoPredicate(error) == attempt # maxRetries

\* retry.ts:31-38: the catch block goes on to the callback and the backoff.
customRetries(error) == attempt # maxRetries /\ retryIf(error)

\* retry.ts:42-45: the counts handed to the failure callback.
errorInfo(error) ==
    [attemptNumber |-> attempt + 1, retriesLeft |-> maxRetries - attempt - 1,
     calls |-> calls, nDelays |-> nDelays, id |-> error.id]

\* retry.ts:26-56: fn settles in the custom loop.
CustomSettle ==
    /\ pc = "await"
    /\ path = "custom"
    /\ \E o \in Outcomes(opKind, calls), r \in JitterSamples :
         LET res == fnSettles(opKind, o, calls) IN
         /\ upstream' = o
         /\ thrown' = res
         /\ IF res.cls = "ok"
            THEN /\ pc' = "done"
                 /\ outcome' = Return(res)
                 /\ UNCHANGED <<lastError, nCb, lastCb, nDelays, delay>>
            ELSE /\ lastError' = res
                 /\ IF customRetries(res)
                    THEN /\ IF opts.onFailedAttempt
                            THEN nCb' = nCb + 1 /\ lastCb' = errorInfo(res)
                            ELSE UNCHANGED <<nCb, lastCb>>
                         /\ delay' = timeout(attempt, IF randomize THEN r ELSE 0)
                         /\ nDelays' = nDelays + 1
                         /\ pc' = "sleep"
                         /\ outcome' = outcome
                    ELSE /\ pc' = "failed"
                         /\ outcome' = Throw(res)
                         /\ UNCHANGED <<nCb, lastCb, nDelays, delay>>
    /\ UNCHANGED <<opts, opKind, path, attempt, calls, errors, classifyVars, otherVars>>

\* retry.ts:55, 24, 26: the timer fires, the loop goes round and calls fn.
CustomWake ==
    /\ pc = "sleep"
    /\ path = "custom"
    /\ attempt' = attempt + 1
    /\ calls' = calls + 1
    /\ pc' = "await"
    /\ UNCHANGED <<opts, opKind, path, upstream, thrown, lastError, errors,
                   nDelays, delay, nCb, lastCb, outcome, classifyVars, otherVars>>

\* p-retry's isNetworkError: the message is on its list of the network
\* errors of fetch.
isNetworkError(msg) == msg = "m8"

\* p-retry: the errors it rejects with at once, without a retry, without the
\* counts and without the failure callback: a thrown value that is no Error
\* is replaced by a new TypeError, a TypeError that is no network error is
\* passed on.
pRetryGivesUp(error) ==
    \/ error.cls \notin {"Error", "TypeError"}
    \/ error.cls = "TypeError" /\ ~isNetworkError(error.msg)

pRetryFinal(error) ==
    IF error.cls = "TypeError" THEN error
    ELSE MkError("TypeError", "TypeError", Absent, "none", "m7", 0, <<>>)

\* RetryOperation.retry: whether a timeout is left for another attempt.
operationRetries == attempt < pRetries

\* retry.ts:62-71: fn settles under p-retry.  For an Error p-retry does not
\* give up on: the error is decorated, the failure callback runs, the error
\* is pushed on the operation's errors, and either the next timeout is
\* started or the promise is rejected with the operation's main error, which
\* carries the counts of the attempt that threw it.
PRetrySettle ==
    /\ pc = "await"
    /\ path = "pretry"
    /\ \E o \in Outcomes(opKind, calls), r \in JitterSamples :
         LET res == fnSettles(opKind, o, calls)
             decorated == decorateErrorWithCounts(res, attempt + 1)
         IN
         /\ upstream' = o
         /\ thrown' = res
         /\ IF res.cls = "ok"
            THEN /\ pc' = "done"
                 /\ outcome' = Return(res)
                 /\ UNCHANGED <<errors, nCb, lastCb, nDelays, delay>>
            ELSE IF pRetryGivesUp(res)
            THEN /\ pc' = "failed"
                 /\ outcome' = Throw(pRetryFinal(res))
                 /\ UNCHANGED <<errors, nCb, lastCb, nDelays, delay>>
            ELSE /\ nCb' = nCb + 1
                 /\ lastCb' = [attemptNumber |-> decorated.attemptNumber,
                               retriesLeft |-> decorated.retriesLeft,
                               calls |-> calls, nDelays |-> nDelays, id |-> res.id]
                 /\ errors' = Append(errors, decorated)
                 /\ IF operationRetries
                    THEN /\ delay' = createTimeout(attempt, IF randomize THEN r ELSE 0)
                         /\ nDelays' = nDelays + 1
                         /\ pc' = "sleep"
                         /\ outcome' = outcome
                    ELSE /\ pc' = "failed"
                         /\ outcome' = Throw(mainError(errors'))
                         /\ UNCHANGED <<nDelays, delay>>
    /\ UNCHANGED <<opts, opKind, path, attempt, calls, lastError, classifyVars, otherVars>>

\* The retry operation's timer fires: the next attempt calls fn.
PRetryWake ==
    /\ pc = "sleep"
    /\ path = "pretry"
    /\ attempt' = attempt + 1
    /\ calls' = calls + 1
    /\ pc' = "await"
    /\ UNCHANGED <<opts, opKind, path, upstream, thrown, lastError, errors,
                   nDelays, delay, nCb, lastCb, outcome, classifyVars, otherVars>>

Next == Begin \/ CustomSettle \/ CustomWake \/ PRetrySettle \/ PRetryWake

Spec == Init /\ [][Next]_vars

TypeOK ==
    /\ pc \in {"start", "await", "sleep", "done", "failed"}
    /\ path \in {"none", "custom", "pretry"}
    /\ calls \in 0..(DefaultRetries + MaxRetries + 2)

-----------------------------------------------------------------------------
(* Provider adapter: the catch block of doQuery on its own *)

\* The HTTP statuses drawn for error.status: none, falsy, below 400, the
\* edges of [400, 500), 408 and 429, and 5xx.
ClassifyStatuses ==
    {Absent, 0, 200, 399, 400, 401, 404, 408, 409, 428, 429, 430, 499, 500, 503, 599}

\* The values drawn for error.code: none, the four network codes, another.
ClassifyCodes ==
    {"none", "ECONNRESET", "ENOTFOUND", "ECONNREFUSED", "ETIMEDOUT", "EPIPE"}

\* The values an upstream call can reject with: Error objects and thrown
\* non-Error objects carrying any of the statuses and codes, and undefined.
ClassifyInputs ==
    {MkError(c, IF c = "Error" THEN "Error" ELSE "none", s, k, "m1", 1, <<>>) :
        c \in {"Error", "NonError"}, s \in ClassifyStatuses, k \in ClassifyCodes}
    \cup {Nullish(1)}

\* openai.ts:122-125: response.ok is false outside 200..299.
responseOk(status) == status >= 200 /\ status <= 299

\* openai.ts:113-125: what callViaProxy throws for a response of the relay
\* that is not ok: a new Error whose message holds the status; the error has
\* no status property.
callViaProxyError(status, id) ==
    MkError("Error", "Error", Absent, "none",
            "Proxy request failed: " \o ToString(status), id, <<>>)

\* The failures of the call of openai.ts:62 (proxy mode): a response of the
\* relay that is not ok, or fetch itself failing (status Absent).
ProxyFailures ==
    {st \in ClassifyStatuses : st = Absent \/ (st >= 100 /\ ~responseOk(st))}

\* The error doQuery catches in proxy mode for the failure st.
proxyCaught(st) ==
    IF st = Absent THEN ATypeError(1) ELSE callViaProxyError(st, 1)

InitClassify ==
    /\ opts = [retries |-> Absent, minTimeout |-> Absent, maxTimeout |-> Absent,
               randomize |-> "unset", retryIf |-> "none", onFailedAttempt |-> FALSE]
    /\ opKind = "doQuery"
    /\ pc = "await"
    /\ path = "pretry"
    /\ attempt = 0
    /\ calls = 1
    /\ upstream = None
    /\ thrown = None
    /\ lastError = None
    /\ errors = <<>>
    /\ nDelays = 0
    /\ delay = 0
    /\ nCb = 0
    /\ lastCb = NoCb
    /\ outcome = Pending
    /\ via \in {"direct", "proxy"}
    /\ IF via = "direct"
       THEN /\ caught \in ClassifyInputs
            /\ upStatus = caught.status
       ELSE /\ upStatus \in ProxyFailures
            /\ caught = proxyCaught(upStatus)
    /\ retriable = "unset"
    /\ rethrown = None
    /\ OtherIdle

\* openai.ts:96: the catch block evaluates this.isRetriableError(error).
Classify ==
    /\ IsError(caught)
    /\ retriable = "unset"
    /\ retriable' = isRetriableError(caught)
    /\ UNCHANGED <<caught, rethrown, via, upStatus, retryVars, otherVars>>

\* openai.ts:96-104: the catch block throws.
Rethrow ==
    /\ retriable # "unset"
    /\ rethrown = None
    /\ rethrown' = doQueryCatch(caught, calls)
    /\ UNCHANGED <<caught, retriable, via, upStatus, retryVars, otherVars>>

NextClassify == Classify \/ Rethrow

SpecClassify == InitClassify /\ [][NextClassify]_vars

-----------------------------------------------------------------------------
(* Properties of the retry engine *)

\* The retry budget n the caller asked for: options.retries, 3 when unset.
Budget == Spread(opts.retries, DefaultRetries)

\* C1 as stated: without a custom retry predicate, withRetry raises an error
\* only after exactly n+1 invocations of the failing operation, whatever the
\* operation fails with.
C1_Original ==
    (path = "pretry" /\ outcome.kind = "throw" /\ IsError(thrown)) => calls = Budget + 1

\* C2 as stated, for a call with a custom retry predicate: with retries = 0
\* there is exactly one attempt, no backoff delay and no failure callback,
\* whatever the predicate returns.
C2_Original ==
    (opts.retries = 0 /\ opts.retryIf # "none") =>
        (calls <= 1 /\ nDelays = 0 /\ nCb = 0)

\* C3: in the custom loop, when retryIf returns false for the error of a
\* failed attempt that is not the last one, withRetry throws that same error
\* at once: no further invocation, no backoff delay and no failure callback
\* for that failure.
C3_PredicateFalseRethrows ==
    (path = "custom" /\ IsError(thrown) /\ attempt # maxRetries /\ ~retryIf(thrown)) =>
        /\ pc = "failed"
        /\ outcome = Throw(thrown)
        /\ calls = attempt + 1
        /\ nDelays = attempt
        /\ nCb = (IF opts.onFailedAttempt THEN attempt ELSE 0)
        /\ lastCb.id # thrown.id

C3_Witness ==
    /\ path = "custom"
    /\ pc = "failed"
    /\ attempt = 1
    /\ attempt # maxRetries
    /\ ~retryIf(thrown)
    /\ opts.onFailedAttempt
    /\ nCb = 1
    /\ nDelays = 1

\* C4 as stated, for an operation that throws Error objects: after a
\* terminal failure withRetry throws the error of the last attempt, the
\* identical value with nothing added, on both paths.
C4_Original ==
    (pc = "failed" /\ thrown.cls = "Error") => outcome = Throw(thrown)

\* C5 as stated: a query whose first upstream call fails with HTTP 404 makes
\* exactly one upstream call, takes no backoff delay and raises a
\* NonRetriableError, also when withRetry runs without a retryIf.
C5_Original ==
    (opKind = "doQuery" /\ opts.retryIf = "none"
        /\ upstream.cls = "Error" /\ upstream.status = 404 /\ upstream.id = 1) =>
        /\ pc = "failed"
        /\ calls = 1
        /\ nDelays = 0
        /\ outcome.kind = "throw"
        /\ outcome.value.name = "NonRetriableError"

\* C6 as stated, on the p-retry path: a failure that isRetriableError
\* classifies as retriable, within the budget, is followed by another attempt
\* and does not end the call.
C6_Original ==
    (path = "pretry" /\ IsError(thrown) /\ isRetriableError(thrown) = "true"
        /\ thrown.id <= Budget) => pc # "failed"

\* The base delay of the formula of the specification, for attempt index k,
\* from the configured timeouts (the defaults when unset).
ClaimedBase(k) ==
    Min(Spread(opts.minTimeout, DefaultMinTimeout) * Pow2(k),
        Spread(opts.maxTimeout, DefaultMaxTimeout))

\* C8 as stated: the backoff delay after the failure of attempt k is
\* min(minTimeout * 2^k, maxTimeout) without jitter and lies in
\* [base, base * 1.1) with jitter, on both paths.
C8_Original ==
    (pc = "sleep") =>
        IF randomize
        THEN /\ ClaimedBase(attempt) * Scale <= delay
             /\ 10 * delay < 11 * ClaimedBase(attempt) * Scale
        ELSE delay = ClaimedBase(attempt) * Scale

\* A failure callback is in force: p-retry always has one (retry.ts:67-69
\* unless options sets it), the custom loop only when options sets it.
CallbackInForce == path = "pretry" \/ (path = "custom" /\ opts.onFailedAttempt)

\* C9 as stated: the failure callback runs exactly once before each retry and
\* at no other time, before the backoff delay of that retry, and sees the
\* attempt numbers 1, 2, 3, ...
C9_Original ==
    CallbackInForce =>
        /\ nCb = nDelays
        /\ (nCb > 0) => /\ lastCb.attemptNumber = nCb
                        /\ lastCb.calls = nCb
                        /\ lastCb.nDelays = nCb - 1

\* C10 as stated: the retriesLeft handed to the failure callback after the
\* failure of attempt a (1-indexed) is n + 1 - a, and no more attempts than
\* that are made afterwards.
C10_Original ==
    (nCb > 0) =>
        /\ lastCb.retriesLeft = Budget + 1 - lastCb.attemptNumber
        /\ calls - lastCb.calls <= lastCb.retriesLeft

-----------------------------------------------------------------------------
(* Properties of the error classification *)

\* C7 as stated: isRetriableError returns a boolean for every error, false
\* exactly when the status is in [400, 500) and is neither 408 nor 429.
C7_Original ==
    (retriable # "unset") =>
        /\ retriable \in {"true", "false"}
        /\ (retriable = "false") <=>
               (caught.status \in (400..499) \ {408, 429})

\* C11: when the upstream call inside doQuery fails, an error classified
\* non-retriable is thrown again as a new Error named NonRetriableError that
\* carries the caught error as originalError, an error classified retriable
\* is thrown again as the identical value, and doQuery always throws.
C11_RethrowByClass ==
    (rethrown # None) =>
        /\ IsError(rethrown)
        /\ (retriable = "false") =>
               /\ rethrown.name = "NonRetriableError"
               /\ rethrown.cls = "Error"
               /\ rethrown.orig = <<caught>>
               /\ rethrown # caught
        /\ (retriable = "true") => rethrown = caught

C11_Witness ==
    /\ via = "direct"
    /\ caught.status = 404
    /\ retriable = "false"
    /\ rethrown.name = "NonRetriableError"
    /\ rethrown.orig = <<caught>>

\* C12 as stated: a failure received through the proxy with an HTTP status in
\* [400, 500) other than 408 and 429 is thrown as a NonRetriableError, as a
\* direct failure with that status is.
C12_Original ==
    (via = "proxy" /\ rethrown # None /\ upStatus \in (400..499) \ {408, 429}) =>
        rethrown.name = "NonRetriableError"

-----------------------------------------------------------------------------
(* Proxy relay: handleOpenAIProxy *)

\* The values of the other machines while the relay or the stream runs.
RetryIdle ==
    /\ opts = [retries |-> Absent, minTimeout |-> Absent, maxTimeout |-> Absent,
               randomize |-> "unset", retryIf |-> "none", onFailedAttempt |-> FALSE]
    /\ opKind = "raw"
    /\ pc = "start"
    /\ path = "none"
    /\ attempt = 0
    /\ calls = 0
    /\ upstream = None
    /\ thrown = None
    /\ lastError = None
    /\ errors = <<>>
    /\ nDelays = 0
    /\ delay = 0
    /\ nCb = 0
    /\ lastCb = NoCb
    /\ outcome = Pending

ClassifyIdle ==
    /\ caught = None
    /\ retriable = "unset"
    /\ rethrown = None
    /\ via = "direct"
    /\ upStatus = Absent

\* Largest number of chunks of an upstream body.
MaxChunks == 2

\* The requests in flight at the relay.
Reqs == {"r1", "r2"}

\* A header: present or not, and its value as a string of characters.
NoHeader == [present |-> FALSE, text |-> <<>>]
Header(text) == [present |-> TRUE, text |-> text]

\* string.startsWith(prefix).
startsWith(text, prefix) ==
    Len(text) >= Len(prefix) /\ SubSeq(text, 1, Len(prefix)) = prefix

\* 'Bearer ' of proxyServer.ts:78.
BearerPrefix == <<"B", "e", "a", "r", "e", "r", " ">>

\* The Authorization headers drawn: none, empty, the scheme without the
\* space, the bare prefix, a bearer key, a lower-case scheme, another scheme,
\* and the prefix not at the start.
AuthValues ==
    {NoHeader, Header(<<>>),
     Header(<<"B", "e", "a", "r", "e", "r">>),
     Header(BearerPrefix),
     Header(BearerPrefix \o <<"k">>),
     Header(<<"b", "e", "a", "r", "e", "r", " ", "k">>),
     Header(<<"B", "a", "s", "i", "c", " ", "k">>),
     Header(<<"x">> \o BearerPrefix \o <<"k">>)}

\* The check that lets any request with an Authorization header through.
authRejectedOnlyMissing(authHeader) ==
    ~authHeader.present \/ authHeader.text = <<>>

\* proxyServer.ts:77-78: !authHeader || !authHeader.startsWith('Bearer ').
authRejected(authHeader) ==
    \/ ~authHeader.present
    \/ authHeader.text = <<>>
    \/ ~startsWith(authHeader.text, BearerPrefix)

\* The upstream statuses drawn.
RelayStatuses == {200, 404, 502}

\* The content of a chunk of an upstream body.
ChunkValues == {"c1", "c2"}

RECURSIVE SeqsUpTo(_, _)
SeqsUpTo(S, n) ==
    IF n = 0 THEN {<<>>}
    ELSE LET shorter == SeqsUpTo(S, n - 1)
         IN  shorter \cup {Append(q, x) : q \in shorter, x \in S}

\* No upstream response (yet, or fetch rejected).
NoResp ==
    [status |-> 0, stream |-> FALSE, hasBody |-> FALSE, body |-> <<>>,
     bodyFails |-> FALSE, jsonOk |-> FALSE]

\* The responses fetch can resolve with: an event stream whose body delivers
\* the chunks of body and then completes or (bodyFails) fails, an event
\* stream without a body, or another response whose body parses as JSON or
\* does not (jsonOk).
Responses ==
    {[status |-> st, stream |-> TRUE, hasBody |-> TRUE, body |-> b,
      bodyFails |-> f, jsonOk |-> FALSE] :
        st \in RelayStatuses, b \in SeqsUpTo(ChunkValues, MaxChunks), f \in BOOLEAN}
    \cup {[status |-> st, stream |-> TRUE, hasBody |-> FALSE, body |-> <<>>,
           bodyFails |-> FALSE, jsonOk |-> FALSE] : st \in RelayStatuses}
    \cup {[status |-> st, stream |-> FALSE, hasBody |-> TRUE, body |-> <<>>,
           bodyFails |-> FALSE, jsonOk |-> j] : st \in RelayStatuses, j \in BOOLEAN}

\* A request dispatched to handleOpenAIProxy and the response object res.
\* method, bodyOk: the request's method and whether its body parses as JSON,
\* known once the request is dispatched.
\* rpc: "received" | "fetching" | "reading" | "buffering" | "done" (the
\* handler's promise resolved) | "rejected" (it rejected).
\* sentStatus: the status line sent to the client, 0 while no header is sent.
\* envelope: the JSON body sent by res.json: "none", "auth" (line 79),
\* "data" (line 128), "failed" (lines 138-141) or "internal" (lines 59-62).
\* fault: how the upstream failed: "none", "fetch", "json" or "read".
\* fate: after a rejection, "unhandled" (the rejection is unhandled) or
\* "destroyed" (the framework destroys the socket).
NewRequest(authHeader) ==
    [auth |-> authHeader, method |-> "unset", bodyOk |-> TRUE,
     rpc |-> "received", upCalls |-> 0, resp |-> NoResp,
     readPos |-> 0, statusCode |-> 200, sentStatus |-> 0, written |-> <<>>,
     ended |-> FALSE, envelope |-> "none", nResponses |-> 0,
     reader |-> "none", releases |-> 0, fault |-> "none", fate |-> "none"]

\* res.json(body): sends the headers with res.statusCode and ends the response.
resJson(q, body) ==
    [q EXCEPT !.sentStatus = q.statusCode, !.envelope = body, !.ended = TRUE,
              !.nResponses = q.nResponses + 1]

\* res.end(): sends the headers if they are not sent yet and ends the response.
resEnd(q) ==
    [q EXCEPT !.sentStatus = IF q.sentStatus = 0 THEN q.statusCode ELSE q.sentStatus,
              !.ended = TRUE, !.nResponses = q.nResponses + 1]

\* The relay dropping a chunk equal to the one written before it.
chunksAfterWriteDeduplicated(written, value) ==
    IF written # <<>> /\ written[Len(written)] = value THEN written
    ELSE Append(written, value)

\* proxyServer.ts:118: the chunks the client has received after res.write(value).
chunksAfterWrite(written, value) == Append(written, value)

\* proxyServer.ts:118, res.write(value): sends the headers if they are not
\* sent yet and the chunk.
resWrite(q, value) ==
    [q EXCEPT !.sentStatus = IF q.sentStatus = 0 THEN q.statusCode ELSE q.sentStatus,
              !.written = chunksAfterWrite(q.written, value)]

\* reader.releaseLock().
releaseLock(q) == [q EXCEPT !.reader = "released", !.releases = @ + 1]

\* A finally block that runs only when the loop ends normally.
finallyOnlyOnCompletion(q, how) ==
    IF how = "completed" THEN releaseLock(q) ELSE q

\* openai.ts:257-259 and proxyServer.ts:120-122: the finally block of the read
\* loop, left by how: "completed", "returned" or "threw".
finallyBlock(q, how) == releaseLock(q)

\* proxyServer.ts:136-142, the catch block, entered with fault f:
\* res.status(500).json(...).  Once the headers are sent res.json throws, the
\* catch block does not end the response and the handler's promise rejects.
catchBlock(q, f, fate) ==
    IF q.sentStatus # 0
    THEN [q EXCEPT !.fault = f, !.statusCode = 500, !.rpc = "rejected", !.fate = fate]
    ELSE [resJson([q EXCEPT !.fault = f, !.statusCode = 500], "failed")
              EXCEPT !.rpc = "done"]

\* unnamed/part_000:20: the relay is built with enableCors: true.
enableCors == TRUE

\* The methods drawn for a request.
Methods == {"POST", "OPTIONS"}

\* proxyServer.ts:67-92: the handler runs up to its first await: it answers
\* 401, or calls fetch.
handleOpenAIProxyEnter(q) ==
    IF authRejected(q.auth)
    THEN [resJson([q EXCEPT !.statusCode = 401], "auth") EXCEPT !.rpc = "done"]
    ELSE [q EXCEPT !.upCalls = @ + 1, !.rpc = "fetching"]

\* proxyServer.ts:23-46, 56-64 and 67-92: one pass of the middleware chain.
\* express.json() passes a body that does not parse to the error handler,
\* which answers 500; cors() answers an OPTIONS request itself with 204;
\* any other request is logged, and the next() of line 44 runs the handler
\* up to its first await within the same pass.
Dispatch(r) ==
    /\ relay[r].rpc = "received"
    /\ \E method \in Methods, bodyOk \in BOOLEAN :
         LET q == [relay[r] EXCEPT !.method = method, !.bodyOk = bodyOk]
         IN  relay' = [relay EXCEPT ![r] =
                 IF ~bodyOk
                 THEN [resJson([q EXCEPT !.statusCode = 500], "internal")
                           EXCEPT !.rpc = "done"]
                 ELSE IF enableCors /\ method = "OPTIONS"
                 THEN [resEnd([q EXCEPT !.statusCode = 204]) EXCEPT !.rpc = "done"]
                 ELSE handleOpenAIProxyEnter(q)]
    /\ UNCHANGED <<retryVars, classifyVars, logs, stream, life, par>>

\* proxyServer.ts:84-127 and 136-142: fetch settles.
FetchSettle(r) ==
    /\ relay[r].rpc = "fetching"
    /\ \/ \E fate \in {"unhandled", "destroyed"} :
            relay' = [relay EXCEPT ![r] = catchBlock(@, "fetch", fate)]
       \/ \E response \in Responses :
            LET q == [relay[r] EXCEPT !.resp = response, !.statusCode = response.status]
            IN  relay' = [relay EXCEPT ![r] =
                    IF response.stream
                    THEN IF response.hasBody
                         THEN [q EXCEPT !.reader = "acquired", !.rpc = "reading"]
                         ELSE [resEnd(q) EXCEPT !.rpc = "done"]
                    ELSE [q EXCEPT !.rpc = "buffering"]]
    /\ UNCHANGED <<retryVars, classifyVars, logs, stream, life, par>>

\* proxyServer.ts:114-124 and 136-142: reader.read() settles.
ReadSettle(r) ==
    /\ relay[r].rpc = "reading"
    /\ \E fate \in {"unhandled", "destroyed"} :
         LET q == relay[r]
         IN  relay' = [relay EXCEPT ![r] =
                 IF q.readPos < Len(q.resp.body)
                 THEN [resWrite(q, q.resp.body[q.readPos + 1])
                           EXCEPT !.readPos = q.readPos + 1]
                 ELSE IF q.resp.bodyFails
                 THEN catchBlock(finallyBlock(q, "threw"), "read", fate)
                 ELSE [resEnd(finallyBlock(q, "completed")) EXCEPT !.rpc = "done"]]
    /\ UNCHANGED <<retryVars, classifyVars, logs, stream, life, par>>

\* proxyServer.ts:127-128 and 136-142: response.json() settles.
JsonSettle(r) ==
    /\ relay[r].rpc = "buffering"
    /\ \E fate \in {"unhandled", "destroyed"} :
         relay' = [relay EXCEPT ![r] =
             IF @.resp.jsonOk
             THEN [resJson(@, "data") EXCEPT !.rpc = "done"]
             ELSE catchBlock(@, "json", fate)]
    /\ UNCHANGED <<retryVars, classifyVars, logs, stream, life, par>>

InitRelay ==
    /\ RetryIdle
    /\ ClassifyIdle
    /\ relay \in [Reqs -> {NewRequest(a) : a \in AuthValues}]
    /\ logs = <<>>
    /\ stream = [pc |-> "idle"]
    /\ life = [pc |-> "idle"]
    /\ par = <<>>

NextRelay ==
    \E r \in Reqs :
        Dispatch(r) \/ FetchSettle(r) \/ ReadSettle(r) \/ JsonSettle(r)

SpecRelay == InitRelay /\ [][NextRelay]_vars

-----------------------------------------------------------------------------
(* Provider adapter: streamViaProxy *)

\* Largest number of events of an upstream event stream.
MaxEvents == 2

\* 'data: ' of openai.ts:238 and '[DONE]' of openai.ts:240.
DataPrefix == <<"d", "a", "t", "a", ":", " ">>
DoneText == <<"[", "D", "O", "N", "E", "]">>

\* The line of an event, by kind: a delta with content "A" or "B", a delta
\* with empty content, a delta without content, a payload that is not JSON,
\* the [DONE] marker, a comment line and a blank line.
EventKinds == {"A", "B", "Empty", "NoContent", "Invalid", "Done", "Comment", "Blank"}

EventLine(kind) ==
    CASE kind = "A" -> DataPrefix \o <<"{", "A", "}">>
      [] kind = "B" -> DataPrefix \o <<"{", "B", "}">>
      [] kind = "Empty" -> DataPrefix \o <<"{", "e", "}">>
      [] kind = "NoContent" -> DataPrefix \o <<"{", "}">>
      [] kind = "Invalid" -> DataPrefix \o <<"{", "A">>
      [] kind = "Done" -> DataPrefix \o DoneText
      [] kind = "Comment" -> <<":", "k">>
      [] OTHER -> <<>>

\* The bytes of an event stream: the lines joined by "\n", with or without a
\* newline after the last one.
RECURSIVE StreamBytes(_, _)
StreamBytes(events, trailingNewline) ==
    IF events = <<>> THEN <<>>
    ELSE EventLine(Head(events))
         \o (IF Len(events) > 1 \/ trailingNewline THEN <<"\n">> ELSE <<>>)
         \o StreamBytes(Tail(events), trailingNewline)

\* buffer.split('\n'): the pieces between the newlines, always at least one.
RECURSIVE split(_)
split(text) ==
    IF \A i \in 1..Len(text) : text[i] # "\n" THEN <<text>>
    ELSE LET i == CHOOSE k \in 1..Len(text) :
                      text[k] = "\n" /\ \A j \in 1..(k - 1) : text[j] # "\n"
         IN  <<SubSeq(text, 1, i - 1)>> \o split(SubSeq(text, i + 1, Len(text)))

\* JSON.parse(data) followed by parsed.choices?.[0]?.delta?.content:
\* "SyntaxError" when data is not JSON, "" when the content is empty or absent.
parseContent(data) ==
    IF data = <<"{", "}">> THEN ""
    ELSE IF Len(data) = 3 /\ data[1] = "{" /\ data[3] = "}" /\ data[2] \in {"A", "B", "e"}
    THEN (IF data[2] = "e" THEN "" ELSE data[2])
    ELSE "SyntaxError"

\* openai.ts:238-253: what one line makes the generator yield, "" for nothing.
lineYields(line) ==
    IF ~startsWith(line, DataPrefix) THEN ""
    ELSE LET data == SubSeq(line, Len(DataPrefix) + 1, Len(line))
         IN  IF data = DoneText THEN ""
             ELSE IF parseContent(data) = "SyntaxError" THEN ""
             ELSE parseContent(data)

\* openai.ts:237-254: the for loop over lines runs until a line yields; the
\* fragment yielded ("" when the loop ends without a yield) and the lines left.
RECURSIVE runLines(_)
runLines(lines) ==
    IF lines = <<>> THEN [content |-> "", rest |-> <<>>]
    ELSE IF lineYields(Head(lines)) # ""
    THEN [content |-> lineYields(Head(lines)), rest |-> Tail(lines)]
    ELSE runLines(Tail(lines))

\* The upstream event streams drawn: up to MaxEvents events, ending with or
\* without a newline, and completing or failing after the last byte.
StreamInputs ==
    {[events |-> ev, trailingNewline |-> nl, fails |-> f] :
        ev \in SeqsUpTo(EventKinds, MaxEvents), nl \in BOOLEAN, f \in BOOLEAN}

\* A call of stream() in proxied mode whose first next() has been requested.
\* pc: "fetching" | "reading" (awaiting reader.read()) | "yield" (suspended at
\* the yield, with lines still to run) | "done".
\* pos: the bytes of the upstream stream delivered so far.
\* exit: how the generator finished: "none", "completed", "returned" (the
\* consumer left its loop) or "threw".
\* swallowed: the errors the consumer threw into the generator that the catch
\* of openai.ts:249 swallowed.
NewStream(in) ==
    [pc |-> "fetching", events |-> in.events, trailingNewline |-> in.trailingNewline,
     fails |-> in.fails, pos |-> 0, buffer |-> <<>>, lines |-> <<>>,
     yielded |-> <<>>, reader |-> "none", releases |-> 0, exit |-> "none",
     swallowed |-> 0]

\* openai.ts:237-254: the generator runs the lines left until one yields.
resumeLines(q, lines) ==
    LET run == runLines(lines)
    IN  IF run.content # ""
        THEN [q EXCEPT !.yielded = Append(@, run.content), !.lines = run.rest,
                       !.pc = "yield"]
        ELSE [q EXCEPT !.lines = <<>>, !.pc = "reading"]

\* openai.ts:205-226: fetch settles: it rejects, the relay's answer is not ok,
\* the response has no body, or a reader is acquired.
StreamFetch ==
    /\ stream.pc = "fetching"
    /\ \E result \in {"rejects", "notOk", "noBody", "ok"} :
         stream' = IF result = "ok"
                   THEN [stream EXCEPT !.reader = "acquired", !.pc = "reading"]
                   ELSE [stream EXCEPT !.exit = "threw", !.pc = "done"]
    /\ UNCHANGED <<retryVars, classifyVars, relay, logs, life, par>>

\* openai.ts:231-259: reader.read() settles with the next bytes, however
\* many, with done or with an error.
StreamRead ==
    /\ stream.pc = "reading"
    /\ LET bytes == StreamBytes(stream.events, stream.trailingNewline)
       IN  IF stream.pos < Len(bytes)
           THEN \E n \in 1..(Len(bytes) - stream.pos) :
                  LET text == stream.buffer \o SubSeq(bytes, stream.pos + 1, stream.pos + n)
                      parts == split(text)
                  IN  stream' = resumeLines(
                          [stream EXCEPT !.pos = @ + n, !.buffer = parts[Len(parts)]],
                          SubSeq(parts, 1, Len(parts) - 1))
           ELSE stream' =
                  LET how == IF stream.fails THEN "threw" ELSE "completed"
                  IN  [finallyBlock(stream, how) EXCEPT !.exit = how, !.pc = "done"]
    /\ UNCHANGED <<retryVars, classifyVars, relay, logs, life, par>>

\* The consumer asks for the next fragment: next().
ConsumerNext ==
    /\ stream.pc = "yield"
    /\ stream' = resumeLines(stream, stream.lines)
    /\ UNCHANGED <<retryVars, classifyVars, relay, logs, life, par>>

\* The consumer leaves its loop, by break or by an error of its own: return().
ConsumerReturn ==
    /\ stream.pc = "yield"
    /\ stream' = [finallyBlock(stream, "returned") EXCEPT !.exit = "returned", !.pc = "done"]
    /\ UNCHANGED <<retryVars, classifyVars, relay, logs, life, par>>

\* The consumer throws into the generator: throw(e).  The yield is inside the
\* try of openai.ts:243-251, whose catch swallows e, and the loop goes on.
ConsumerThrow ==
    /\ stream.pc = "yield"
    /\ stream.swallowed = 0
    /\ stream' = resumeLines([stream EXCEPT !.swallowed = @ + 1], stream.lines)
    /\ UNCHANGED <<retryVars, classifyVars, relay, logs, life, par>>

InitStream ==
    /\ RetryIdle
    /\ ClassifyIdle
    /\ relay = <<>>
    /\ logs = <<>>
    /\ stream \in {NewStream(in) : in \in StreamInputs}
    /\ life = [pc |-> "idle"]
    /\ par = <<>>

NextStream ==
    StreamFetch \/ StreamRead \/ ConsumerNext \/ ConsumerReturn \/ ConsumerThrow

SpecStream == InitStream /\ [][NextStream]_vars

-----------------------------------------------------------------------------
(* Properties of the proxy relay *)

\* The Authorization header is present and its first seven characters are
\* "Bearer ".
HasBearer(q) ==
    /\ q.auth.present
    /\ Len(q.auth.text) >= 7
    /\ \A i \in 1..7 : q.auth.text[i] = BearerPrefix[i]

\* C13 as stated: every request whose Authorization header is missing or
\* does not start with "Bearer " is answered 401.
C13_Original ==
    \A r \in Reqs :
        (~HasBearer(relay[r]) /\ relay[r].rpc = "done") => relay[r].sentStatus = 401

\* C13: a request whose Authorization header is missing or does not start
\* with "Bearer " never causes an upstream call, whatever the other request
\* is doing, and is answered 401 when it reaches the handler (500 by the error
\* handler when its body does not parse, 204 by the CORS middleware when it is
\* an OPTIONS request); an upstream call is made only for a request whose
\* header starts with "Bearer ".
C13_UnauthorizedNeverForwarded ==
    \A r \in Reqs :
        /\ ~HasBearer(relay[r]) =>
               /\ relay[r].upCalls = 0
               /\ relay[r].resp = NoResp
               /\ relay[r].rpc \in {"received", "done"}
               /\ (relay[r].rpc = "done") =>
                      /\ relay[r].nResponses = 1
                      /\ relay[r].sentStatus =
                             IF ~relay[r].bodyOk THEN 500
                             ELSE IF relay[r].method = "OPTIONS" THEN 204
                             ELSE 401
                      /\ (relay[r].sentStatus = 401) => relay[r].envelope = "auth"
        /\ (relay[r].upCalls > 0) => HasBearer(relay[r])

\* A request with another scheme was answered 401 by the handler while a
\* bearer request is being relayed.
C13_Witness ==
    \E r, o \in Reqs :
        /\ relay[r].auth.present /\ ~HasBearer(relay[r])
        /\ relay[r].rpc = "done" /\ relay[r].sentStatus = 401 /\ relay[r].upCalls = 0
        /\ HasBearer(relay[o]) /\ relay[o].upCalls = 1 /\ relay[o].rpc = "reading"

\* q is a prefix of t.
IsPrefix(q, t) == Len(q) <= Len(t) /\ SubSeq(t, 1, Len(q)) = q

\* C14: in streaming mode the relay has at every moment written a prefix of
\* the upstream chunks, and when the upstream delivers its N chunks and then
\* completes, the client has received exactly those N chunks, in upstream
\* order and unchanged, and then the end of the response, once.
C14_StreamRelayedVerbatim ==
    \A r \in Reqs :
        LET q == relay[r]
        IN  (q.resp.stream /\ q.resp.hasBody) =>
                /\ IsPrefix(q.written, q.resp.body)
                /\ Len(q.written) = q.readPos
                /\ (q.rpc = "reading") => ~q.ended
                /\ (q.rpc = "done" /\ ~q.resp.bodyFails) =>
                       /\ q.written = q.resp.body
                       /\ q.ended
                       /\ q.nResponses = 1

\* A stream of two equal chunks was relayed and ended while the other
\* request is still being read.
C14_Witness ==
    \E r, o \in Reqs :
        /\ relay[r].resp.stream /\ relay[r].rpc = "done" /\ relay[r].ended
        /\ relay[r].resp.body = <<"c1", "c1">>
        /\ relay[r].written = <<"c1", "c1">>
        /\ relay[o].rpc = "reading" /\ relay[o].written = <<"c2">>

\* The handler of request r has finished: its promise resolved or rejected.
Finished(q) == q.rpc \in {"done", "rejected"}

\* C15 as stated: whenever contacting or reading the upstream fails (before a
\* response, while buffering a body, or in the middle of a streamed body),
\* the request is answered 500 with the JSON envelope, exactly one response
\* is completed, and the failure does not escape the handler.
C15_Original ==
    \A r \in Reqs :
        (relay[r].fault # "none" /\ Finished(relay[r])) =>
            /\ relay[r].sentStatus = 500
            /\ relay[r].envelope = "failed"
            /\ relay[r].nResponses = 1
            /\ relay[r].rpc = "done"

\* C20 as stated: once an upstream response is obtained the client's status
\* is the upstream's, whatever the body; 500 with the failure envelope is
\* answered only when no upstream response was obtained.
C20_Original ==
    \A r \in Reqs :
        (relay[r].resp # NoResp /\ Finished(relay[r])) =>
            /\ relay[r].sentStatus = relay[r].resp.status
            /\ relay[r].envelope # "failed"

-----------------------------------------------------------------------------
(* Properties of the adapter's proxied stream *)

\* The non-empty content fragments of the events of a stream, in order.
RECURSIVE contentFragments(_)
contentFragments(events) ==
    IF events = <<>> THEN <<>>
    ELSE (IF Head(events) \in {"A", "B"} THEN <<Head(events)>> ELSE <<>>)
         \o contentFragments(Tail(events))

\* C19 as stated: when the upstream completes, the generator has yielded
\* exactly the non-empty content fragments of the upstream's data events,
\* each once and in order, however the bytes were split into reads and
\* whether or not the stream ends with a newline.
C19_Original ==
    (stream.pc = "done" /\ stream.exit = "completed") =>
        stream.yielded = contentFragments(stream.events)

-----------------------------------------------------------------------------
(* The relay and an adapter stream side by side *)

\* One bearer request and one request without credentials at the relay, and
\* an adapter stream of at most one content event that completes or fails.
InitReaders ==
    /\ RetryIdle
    /\ ClassifyIdle
    /\ relay = [r \in Reqs |->
                   IF r = "r1" THEN NewRequest(Header(BearerPrefix \o <<"k">>))
                   ELSE NewRequest(NoHeader)]
    /\ logs = <<>>
    /\ stream \in {NewStream(in) : in \in
                      {i \in StreamInputs :
                          i.trailingNewline /\ i.events \in {<<>>, <<"A">>}}}
    /\ life = [pc |-> "idle"]
    /\ par = <<>>

NextReaders == NextRelay \/ NextStream

SpecReaders == InitReaders /\ [][NextReaders]_vars

\* The reader of q was released as often as it was acquired, at most once,
\* and is not held once the code that acquired it has exited.
ReaderReleasedOnce(q, exited) ==
    /\ q.reader = "none" => q.releases = 0
    /\ q.reader = "acquired" => q.releases = 0 /\ ~exited
    /\ q.reader = "released" => q.releases = 1 /\ exited

\* C18: the reader of the adapter's proxied stream and the reader of each
\* streaming relay request are released exactly once on every way out of
\* their read loop (completion, the consumer leaving early, a failing read),
\* and are never held after the loop has exited.
C18_ReadersReleasedOnce ==
    /\ ReaderReleasedOnce(stream, stream.pc = "done")
    /\ (stream.pc \in {"reading", "yield"}) => stream.reader = "acquired"
    /\ \A r \in Reqs :
           /\ ReaderReleasedOnce(relay[r], Finished(relay[r]))
           /\ (relay[r].rpc = "reading") => relay[r].reader = "acquired"

\* The consumer left the adapter's stream early and the relay's upstream read
\* failed in mid-stream: both readers are released.
C18_Witness ==
    /\ stream.exit = "returned" /\ stream.releases = 1
    /\ relay["r1"].fault = "read" /\ relay["r1"].written # <<>>
    /\ relay["r1"].releases = 1

-----------------------------------------------------------------------------
(* Proxy relay: request logging and sanitizeHeaders *)

\* Two requests whose logs are compared.
LogReqs == {"a", "b"}

\* The values drawn for a credential header: none, the empty string, and two
\* bearer secrets.
CredentialValues ==
    {NoHeader, Header(<<>>),
     Header(BearerPrefix \o <<"s", "1">>), Header(BearerPrefix \o <<"s", "2">>)}

\* The values drawn for another header of the request.
PlainValues == {Header(<<"j">>), Header(<<"t">>)}

\* req.headers: header names are lower-cased by the HTTP parser.
InboundHeaders ==
    [authorization : CredentialValues, xApiKey : CredentialValues,
     contentType : PlainValues]

\* 'Bearer [REDACTED]' of proxyServer.ts:149 and '[REDACTED]' of :152.
BearerRedacted == Header(BearerPrefix \o <<"[REDACTED]">>)
Redacted == Header(<<"[REDACTED]">>)

\* if (value): a header that is present and not the empty string.
Truthy(h) == h.present /\ h.text # <<>>

\* sanitizeHeaders writing the placeholders into the request's own headers.
sanitizeHeadersInPlace(headers) ==
    LET sanitized ==
            [headers EXCEPT
                !.authorization = IF Truthy(@) THEN BearerRedacted ELSE @,
                !.xApiKey = IF Truthy(@) THEN Redacted ELSE @]
    IN  [returned |-> sanitized, argument |-> sanitized]

\* proxyServer.ts:145-155: the object returned and the argument afterwards.
sanitizeHeaders(headers) ==
    LET sanitized ==
            [headers EXCEPT
                !.authorization = IF Truthy(@) THEN BearerRedacted ELSE @,
                !.xApiKey = IF Truthy(@) THEN Redacted ELSE @]
    IN  [returned |-> sanitized, argument |-> headers]

\* A request received by the relay: the headers as received, req.headers, the
\* headers handed to the log sink and the Authorization sent upstream.
NotLogged == [authorization |-> NoHeader, xApiKey |-> NoHeader, contentType |-> NoHeader]

NewLogRequest(h) ==
    [lpc |-> "received", received |-> h, headers |-> h, logged |-> NotLogged,
     forwarded |-> NoHeader]

\* proxyServer.ts:77-88: the handler reads req.headers.authorization and, when
\* it is a bearer credential, sends it upstream.
forwardedAuthorization(headers) ==
    IF authRejected(headers.authorization) THEN NoHeader ELSE headers.authorization

\* proxyServer.ts:38-45 and 77-88: the logging middleware hands the sanitized
\* headers to the log sink, and its next() runs the handler, which reads
\* req.headers, within the same pass.
LogRequest(r) ==
    /\ logs[r].lpc = "received"
    /\ LET out == sanitizeHeaders(logs[r].headers)
       IN  logs' = [logs EXCEPT ![r] =
                       [@ EXCEPT !.lpc = "handled", !.logged = out.returned,
                                 !.headers = out.argument,
                                 !.forwarded = forwardedAuthorization(out.argument)]]
    /\ UNCHANGED <<retryVars, classifyVars, relay, stream, life, par>>

InitLog ==
    /\ RetryIdle
    /\ ClassifyIdle
    /\ relay = <<>>
    /\ logs \in [LogReqs -> {NewLogRequest(h) : h \in InboundHeaders}]
    /\ stream = [pc |-> "idle"]
    /\ life = [pc |-> "idle"]
    /\ par = <<>>

NextLog == \E r \in LogReqs : LogRequest(r)

SpecLog == InitLog /\ [][NextLog]_vars

-----------------------------------------------------------------------------
(* Properties of the request logging *)

\* The request has passed the logging middleware.
Logged(q) == q.lpc = "handled"

\* Two requests carry the same headers and differ at most in the values of
\* their credential headers.
DifferOnlyInCredentials(g, h) ==
    /\ g.contentType = h.contentType
    /\ g.authorization.present = h.authorization.present
    /\ g.xApiKey.present = h.xApiKey.present

\* C16 as stated: the logged headers never carry the raw value of the
\* Authorization or X-API-Key header, the placeholder stands in its place; two
\* requests that differ only in credential values log the same headers; and
\* the request's own headers are not altered.
C16_Original ==
    /\ \A r \in LogReqs :
           Logged(logs[r]) =>
               /\ logs[r].received.authorization.present =>
                      /\ logs[r].logged.authorization = BearerRedacted
                      /\ logs[r].logged.authorization # logs[r].received.authorization
               /\ logs[r].received.xApiKey.present =>
                      /\ logs[r].logged.xApiKey = Redacted
                      /\ logs[r].logged.xApiKey # logs[r].received.xApiKey
               /\ logs[r].headers = logs[r].received
    /\ \A r, o \in LogReqs :
           (/\ Logged(logs[r]) /\ Logged(logs[o])
            /\ DifferOnlyInCredentials(logs[r].received, logs[o].received)) =>
               logs[r].logged = logs[o].logged

\* C16: a non-empty Authorization or X-API-Key value is replaced by its
\* placeholder in the logged headers (an empty value is logged as it is), the
\* other headers are logged unchanged, two requests that differ only in
\* non-empty credential values log the same headers, the request's own
\* headers are not altered, and the credential sent upstream is the one
\* received.
C16_NonEmptyCredentialsRedacted ==
    /\ \A r \in LogReqs :
           Logged(logs[r]) =>
               /\ Truthy(logs[r].received.authorization) =>
                      /\ logs[r].logged.authorization = BearerRedacted
                      /\ logs[r].logged.authorization # logs[r].received.authorization
               /\ Truthy(logs[r].received.xApiKey) =>
                      /\ logs[r].logged.xApiKey = Redacted
                      /\ logs[r].logged.xApiKey # logs[r].received.xApiKey
               /\ ~Truthy(logs[r].received.authorization) =>
                      logs[r].logged.authorization = logs[r].received.authorization
               /\ ~Truthy(logs[r].received.xApiKey) =>
                      logs[r].logged.xApiKey = logs[r].received.xApiKey
               /\ logs[r].logged.contentType = logs[r].received.contentType
               /\ logs[r].headers = logs[r].received
               /\ (logs[r].lpc = "handled" /\ Truthy(logs[r].received.authorization)) =>
                      logs[r].forwarded = logs[r].received.authorization
    /\ \A r, o \in LogReqs :
           (/\ Logged(logs[r]) /\ Logged(logs[o])
            /\ DifferOnlyInCredentials(logs[r].received, logs[o].received)
            /\ Truthy(logs[r].received.authorization) = Truthy(logs[o].received.authorization)
            /\ Truthy(logs[r].received.xApiKey) = Truthy(logs[o].received.xApiKey)) =>
               logs[r].logged = logs[o].logged

\* Two requests with different secrets in both credential headers were
\* logged alike and one of them was forwarded with its own secret.
C16_Witness ==
    /\ logs["a"].received.authorization = Header(BearerPrefix \o <<"s", "1">>)
    /\ logs["b"].received.authorization = Header(BearerPrefix \o <<"s", "2">>)
    /\ logs["a"].received.xApiKey = Header(BearerPrefix \o <<"s", "2">>)
    /\ logs["b"].received.xApiKey = Header(BearerPrefix \o <<"s", "1">>)
    /\ logs["a"].lpc = "handled" /\ logs["b"].lpc = "handled"
    /\ logs["a"].logged = logs["b"].logged
    /\ logs["a"].forwarded = logs["a"].received.authorization

-----------------------------------------------------------------------------
(* Proxy relay: start and stop *)

\* Largest number of calls of start() and of stop(), and of connections open
\* on one listener.
MaxStarts == 2
MaxStops == 2
MaxConns == 1

\* The relay after its constructor: this.server is undefined (cur = 0).
\* servers[k]: the http.Server made by the k-th start(): handle (the listening
\* socket is open), conns (connections open on it), waiters (the stop() calls
\* whose callback waits for its 'close' event), event (the 'listening' or
\* 'error' event still to be emitted).
\* starts[k]: the promise of the k-th start().
\* express: the major version of the Express library installed.
\* portValid: config.port is a port number listen accepts (an integer of
\* 0..65535); NaN or 70000 is not.
\* stops[i]: the promise of the i-th stop(), the server it closed (0 for
\* none) and the listeners that were open when it was called.
NewRelay(express, portValid) ==
    [pc |-> "constructed", express |-> express, portValid |-> portValid,
     cur |-> 0, servers |-> <<>>, starts |-> <<>>, stops |-> <<>>]

\* The Express major versions the relay can be built with.  app.listen of
\* Express 4 registers the callback for 'listening' alone; app.listen of
\* Express 5 also calls it, with the error, on the server's first 'error'.
ExpressMajors == {4, 5}

\* The listeners of the relay that are open.
Listening(l) == {k \in 1..Len(l.servers) : l.servers[k].handle}

\* proxyServer.ts:157-173, start().  With a port listen does not accept,
\* app.listen throws before the assignment of line 160: the server it made is
\* dropped, never bound and emits nothing, this.server keeps its value, and
\* the catch of lines 169-171 rejects the promise before start() returns.
\* Otherwise app.listen makes a new server and binds it, which succeeds or
\* fails (the port is taken); this.server is the new server either way.
Start ==
    /\ Len(life.servers) < MaxStarts
    /\ IF ~life.portValid
       THEN life' = [life EXCEPT
                !.servers = Append(@, [handle |-> FALSE, conns |-> 0,
                                       waiters |-> {}, event |-> "none"]),
                !.starts = Append(@, "rejected")]
       ELSE \E bound \in BOOLEAN :
              life' = [life EXCEPT
                  !.servers = Append(@, [handle |-> bound, conns |-> 0, waiters |-> {},
                                         event |-> IF bound THEN "listening" ELSE "error"]),
                  !.starts = Append(@, "pending"),
                  !.cur = Len(life.servers) + 1]
    /\ UNCHANGED <<retryVars, classifyVars, relay, logs, stream, par>>

\* proxyServer.ts:160-168: the server emits 'listening' (unless it was closed
\* in between) or 'error', and the promise of start() settles.  On 'error'
\* the handler of line 165 rejects it under Express 4; under Express 5 the
\* callback of line 160 has run first and resolved it, and the reject that
\* follows has no effect.
StartSettle(k) ==
    /\ k \in 1..Len(life.servers)
    /\ life.servers[k].event # "none"
    /\ life' = [life EXCEPT
           !.servers[k].event = "none",
           !.starts[k] = IF life.servers[k].event = "error"
                         THEN (IF life.express = 5 THEN "resolved" ELSE "rejected")
                         ELSE IF life.servers[k].handle THEN "resolved"
                         ELSE @]
    /\ UNCHANGED <<retryVars, classifyVars, relay, logs, stream, par>>

\* A client connects to an open listener.
Connect(k) ==
    /\ k \in Listening(life)
    /\ life.servers[k].conns < MaxConns
    /\ life' = [life EXCEPT !.servers[k].conns = @ + 1]
    /\ UNCHANGED <<retryVars, classifyVars, relay, logs, stream, par>>

\* A connection ends.
Disconnect(k) ==
    /\ k \in 1..Len(life.servers)
    /\ life.servers[k].conns > 0
    /\ life' = [life EXCEPT !.servers[k].conns = @ - 1]
    /\ UNCHANGED <<retryVars, classifyVars, relay, logs, stream, par>>

\* proxyServer.ts:175-186, stop(): without this.server the promise resolves at
\* once; otherwise this.server.close(cb) closes the listening socket of that
\* server and cb waits for its 'close' event.
Stop ==
    /\ Len(life.stops) < MaxStops
    /\ LET i == Len(life.stops) + 1
           open == Listening(life)
       IN  life' =
             IF life.cur = 0
             THEN [life EXCEPT !.stops = Append(@,
                      [state |-> "resolved", target |-> 0, open |-> open])]
             ELSE [life EXCEPT
                      !.stops = Append(@,
                          [state |-> "pending", target |-> life.cur, open |-> open]),
                      !.servers[life.cur].handle = FALSE,
                      !.servers[life.cur].waiters = @ \cup {i}]
    /\ UNCHANGED <<retryVars, classifyVars, relay, logs, stream, par>>

\* proxyServer.ts:178-181: a closed server without connections emits 'close'
\* (also when it was not listening when close was called), and the callbacks
\* waiting for it resolve their promises.
CloseEmit(k) ==
    /\ k \in 1..Len(life.servers)
    /\ ~life.servers[k].handle
    /\ life.servers[k].conns = 0
    /\ life.servers[k].waiters # {}
    /\ life' = [life EXCEPT
           !.servers[k].waiters = {},
           !.stops = [i \in 1..Len(life.stops) |->
                         IF i \in life.servers[k].waiters
                         THEN [life.stops[i] EXCEPT !.state = "resolved"]
                         ELSE life.stops[i]]]
    /\ UNCHANGED <<retryVars, classifyVars, relay, logs, stream, par>>

InitLife ==
    /\ RetryIdle
    /\ ClassifyIdle
    /\ relay = <<>>
    /\ logs = <<>>
    /\ stream = [pc |-> "idle"]
    /\ life \in {NewRelay(express, portValid) :
                    express \in ExpressMajors, portValid \in BOOLEAN}
    /\ par = <<>>

NextLife ==
    \/ Start
    \/ Stop
    \/ \E k \in 1..MaxStarts :
          StartSettle(k) \/ Connect(k) \/ Disconnect(k) \/ CloseEmit(k)

\* The event loop emits every pending event.  Nothing in the relay ends a
\* connection: a client may keep its connection open for ever.
FairLife ==
    \A k \in 1..MaxStarts :
        /\ WF_vars(StartSettle(k))
        /\ WF_vars(CloseEmit(k))

SpecLife == InitLife /\ [][NextLife]_vars /\ FairLife

-----------------------------------------------------------------------------
(* Properties of start and stop *)

\* A stop() that has resolved: the listeners that were open when it was
\* called are closed and have no connection left.
StopResolvedAfterClose ==
    \A i \in 1..Len(life.stops) :
        (life.stops[i].state = "resolved") =>
            \A k \in life.stops[i].open :
                ~life.servers[k].handle /\ life.servers[k].conns = 0

\* The i-th stop() was called; its promise has resolved.
StopCalled(i) == i <= Len(life.stops)
StopResolved(i) == i <= Len(life.stops) /\ life.stops[i].state = "resolved"

\* C17 as stated: over any sequence of start() and stop() calls, every stop()
\* eventually resolves, and a stop() on a listening relay resolves only
\* after the listener is fully closed.
C17_Original ==
    /\ []StopResolvedAfterClose
    /\ \A i \in 1..MaxStops : StopCalled(i) ~> StopResolved(i)

-----------------------------------------------------------------------------
(* Concurrent calls: withRetry(() => adapter.doQuery(prompt, options), ...)  *)

\* The calls running at the same time on one adapter instance, and the prompt
\* of each.
Calls == {"c1", "c2"}
promptOf(c) == IF c = "c1" THEN "p1" ELSE "p2"

\* openai.ts:15-40: the fields of the adapter instance that doQuery reads.
NewAdapter == [defaultModel |-> "gpt-5", useProxy |-> FALSE]

\* The QueryOptions drawn for a call: none, or a system prompt, one context
\* turn and a model override.
QueryOptionsSet ==
    {[systemPrompt |-> "none", context |-> <<>>, model |-> "none"],
     [systemPrompt |-> "s", context |-> <<[role |-> "assistant", content |-> "x"]>>,
      model |-> "m"]}

\* The RetryOptions drawn for a call: a budget of one retry or of MaxRetries,
\* a backoff capped at its second delay, jitter on or off, and the predicate
\* that stops at a NonRetriableError.
ParOptionsSet ==
    {[retries |-> n, minTimeout |-> 10, maxTimeout |-> 15, randomize |-> j,
      retryIf |-> "notNonRetriable", onFailedAttempt |-> FALSE] :
        n \in {1, MaxRetries}, j \in {"unset", "false"}}

\* The values of Math.random() drawn for a concurrent call.
ParJitter == {0, RandomResolution - 1}

\* The outcomes drawn for an upstream call of invocation id.
ParOutcomes(id) == {Ok, APIError(503, id), APIError(404, id)}

\* openai.ts:43-55: the message list doQuery builds, in a local array.
buildMessages(prompt, options) ==
    (IF options.systemPrompt # "none"
     THEN <<[role |-> "system", content |-> options.systemPrompt]>> ELSE <<>>)
    \o options.context
    \o <<[role |-> "user", content |-> prompt]>>

\* doQuery keeping the model override of the call on the instance.
doQueryRequestOnInstance(this, prompt, options) ==
    LET model == IF options.model # "none" THEN options.model ELSE this.defaultModel
    IN  [request |-> [model |-> model, messages |-> buildMessages(prompt, options)],
         this |-> [this EXCEPT !.defaultModel = model]]

\* openai.ts:43-78: the request doQuery sends (options?.model ||
\* this.defaultModel, and the messages), and the instance afterwards: doQuery
\* assigns to no field of this.
doQueryRequest(this, prompt, options) ==
    LET model == IF options.model # "none" THEN options.model ELSE this.defaultModel
    IN  [request |-> [model |-> model, messages |-> buildMessages(prompt, options)],
         this |-> this]

\* A call of withRetry before it runs.  The locals of retry.ts:19-24 and of
\* openai.ts:43 live in the record of the call.
\* requests: the requests sent, one per invocation of doQuery.
\* results, draws: the upstream outcomes and the values of Math.random() the
\* call has been given so far.
\* delays: the backoff delays started, in 1/Scale ms.
NewCall(c, options, retryOptions) ==
    [prompt |-> promptOf(c), options |-> options, retry |-> retryOptions,
     cpc |-> "start", attempt |-> 0, requests |-> <<>>, results |-> <<>>,
     draws |-> <<>>, delays |-> <<>>, outcome |-> Pending]

\* retry.ts:19-21 and 50-52 for the options of call q.
callMaxRetries(q) == OrDefault(q.retry.retries, DefaultRetries)
callTimeout(q, r) ==
    LET baseTimeout == Min(OrDefault(q.retry.minTimeout, DefaultMinTimeout)
                               * Pow2(q.attempt),
                           OrDefault(q.retry.maxTimeout, DefaultMaxTimeout))
    IN  IF q.retry.randomize # "false" THEN baseTimeout * (Scale + r)
        ELSE baseTimeout * Scale

\* retry.ts:26 and openai.ts:43-78: the loop invokes fn, doQuery builds its
\* request from the instance this and sends it.  The call and the instance
\* afterwards.
invoke(this, q) ==
    LET sent == doQueryRequest(this, q.prompt, q.options)
    IN  [call |-> [q EXCEPT !.requests = Append(@, sent.request), !.cpc = "await"],
         this |-> sent.this]

\* retry.ts:26-55 and openai.ts:80-105: the upstream call of q settles with o
\* and Math.random() returns r / RandomResolution.
settle(q, o, r) ==
    LET res == fnSettles("doQuery", o, Len(q.requests))
        seen == [q EXCEPT !.results = Append(@, o)]
    IN  IF res.cls = "ok"
        THEN [seen EXCEPT !.cpc = "done", !.outcome = Return(res)]
        ELSE IF q.attempt # callMaxRetries(q) /\ res.name # "NonRetriableError"
        THEN [seen EXCEPT !.cpc = "sleep",
                          !.draws = Append(@, r),
                          !.delays = Append(@, callTimeout(q, r))]
        ELSE [seen EXCEPT !.cpc = "failed", !.outcome = Throw(res)]

\* retry.ts:55 and 24: the timer of q fires and the loop goes round.
wake(this, q) == invoke(this, [q EXCEPT !.attempt = @ + 1])

\* withRetry is called for c.
ParBegin(c) ==
    /\ par.call[c].cpc = "start"
    /\ LET run == invoke(par.adapter, par.call[c])
       IN  par' = [par EXCEPT !.call[c] = run.call, !.adapter = run.this]
    /\ UNCHANGED <<retryVars, classifyVars, relay, logs, stream, life>>

\* The upstream call of c settles.
ParSettle(c) ==
    /\ par.call[c].cpc = "await"
    /\ \E o \in ParOutcomes(Len(par.call[c].requests)), r \in ParJitter :
         par' = [par EXCEPT !.call[c] =
                    settle(@, o, IF @.retry.randomize # "false" THEN r ELSE 0)]
    /\ UNCHANGED <<retryVars, classifyVars, relay, logs, stream, life>>

\* The backoff timer of c fires.
ParWake(c) ==
    /\ par.call[c].cpc = "sleep"
    /\ LET run == wake(par.adapter, par.call[c])
       IN  par' = [par EXCEPT !.call[c] = run.call, !.adapter = run.this]
    /\ UNCHANGED <<retryVars, classifyVars, relay, logs, stream, life>>

InitPar ==
    /\ RetryIdle
    /\ ClassifyIdle
    /\ relay = <<>>
    /\ logs = <<>>
    /\ stream = [pc |-> "idle"]
    /\ life = [pc |-> "idle"]
    /\ \E f \in [Calls -> QueryOptionsSet \X ParOptionsSet] :
         par = [adapter |-> NewAdapter,
                call |-> [c \in Calls |-> NewCall(c, f[c][1], f[c][2])]]

NextPar == \E c \in Calls : ParBegin(c) \/ ParSettle(c) \/ ParWake(c)

SpecPar == InitPar /\ [][NextPar]_vars

-----------------------------------------------------------------------------
(* Properties of concurrent calls *)

\* The call q before it ran.
notStarted(q) ==
    [q EXCEPT !.cpc = "start", !.attempt = 0, !.requests = <<>>, !.results = <<>>,
              !.draws = <<>>, !.delays = <<>>, !.outcome = Pending]

\* A call running alone on its own adapter instance, given the upstream
\* outcomes and the values of Math.random() listed: run is the call and the
\* instance while an invocation is pending.
RECURSIVE runAlone(_, _, _)
runAlone(run, results, draws) ==
    IF results = <<>> THEN run
    ELSE LET settled == settle(run.call, Head(results),
                               IF draws = <<>> THEN 0 ELSE Head(draws))
         IN  IF settled.cpc = "sleep" /\ Len(results) > 1
             THEN runAlone(wake(run.this, settled), Tail(results), Tail(draws))
             ELSE [call |-> settled, this |-> run.this]

\* What the call q is when it runs alone and is given the outcomes and the
\* random values q was given, up to the point q has reached.
alone(q) ==
    IF q.cpc = "start" THEN notStarted(q)
    ELSE LET run == runAlone(invoke(NewAdapter, notStarted(q)), q.results, q.draws)
         IN  IF run.call.cpc = "sleep" /\ q.cpc = "await"
             THEN wake(run.this, run.call).call
             ELSE run.call

\* C21: in every interleaving of two calls on one adapter instance, the
\* attempt counter, the requests sent (model and message list), the backoff
\* delays and the outcome of each call are those of the call running alone,
\* the instance is left as it was built, and while one call sleeps in its
\* backoff the other call can begin, settle and wake.
C21_CallsDoNotInterfere ==
    /\ par.adapter = NewAdapter
    /\ \A c \in Calls : par.call[c] = alone(par.call[c])
    /\ \A c, d \in Calls :
           (c # d /\ par.call[c].cpc = "sleep") =>
               /\ (par.call[d].cpc = "start") => ENABLED ParBegin(d)
               /\ (par.call[d].cpc = "await") => ENABLED ParSettle(d)
               /\ (par.call[d].cpc = "sleep") => ENABLED ParWake(d)

\* While the first call, with a model override, sleeps in its first backoff,
\* the second call has failed once, slept, retried with its own request and
\* returned.
C21_Witness ==
    /\ par.call["c1"].options.model = "m"
    /\ par.call["c1"].cpc = "sleep" /\ Len(par.call["c1"].delays) = 1
    /\ par.call["c2"].options.model = "none"
    /\ par.call["c2"].cpc = "done" /\ par.call["c2"].attempt = 1
    /\ Len(par.call["c2"].requests) = 2
    /\ par.call["c2"].requests[2] =
           [model |-> "gpt-5", messages |-> <<[role |-> "user", content |-> "p2"]>>]

====
